---- MODULE Spec2Model ----
(***************************************************************************)
(* Model of the Mattermost Zendesk plugin (server/command.go,              *)
(* server/plugin.go): the slash-command router, the per-user OAuth token   *)
(* map and the OAuth redirect callback.                                    *)
(*                                                                         *)
(* Three specifications share the variables:                               *)
(*   Spec       every command and every HTTP request handled as one step   *)
(*              (invocations one after the other);                         *)
(*   RouteSpec  ExecuteCommand applied once to an arbitrary token list     *)
(*              (the router as a pure function);                           *)
(*   ConcSpec   invocations running on concurrent workers, every access to *)
(*              the token map split into its begin and its end.            *)
(***************************************************************************)
EXTENDS Integers, Sequences, FiniteSets, TLC

VARIABLES
    oauthAccessTokenMap,  \* Plugin.oauthAccessTokenMap: user id -> access token
    out,                  \* what the last invocation did (posts, calls, response)
    pending,              \* RouteSpec: the command line drawn by Init, not yet executed
    workers,              \* ConcSpec: each worker's invocation and its position
    fatal                 \* ConcSpec: the Go runtime ended the process (fatal error)

vars == <<oauthAccessTokenMap, out, pending, workers, fatal>>

----------------------------------------------------------------------------
(* Bounds *)

\* operands after the verb path in the commands of Spec
MaxOperands == 1
\* tokens after the trigger in the command lines of RouteSpec
MaxArgs == 3
\* comments of a ticket returned by ListTicketComments
MaxComments == 3
\* concurrent workers of ConcSpec
NumWorkers == 2
\* blanks in one run of whitespace of the command lines of CommentSpec
MaxBlanks == 2

----------------------------------------------------------------------------
(* Values *)

\* Mattermost user ids that issue commands
UserIDs == {"u1", "u2"}
\* values of the Mattermost-User-ID header: empty when the request carries none
HeaderIDs == UserIDs \cup {""}
\* access tokens the token endpoint hands out
Tokens == {"tokA", "tokB"}

NoValue == "nil"

\* net/http status codes used by plugin.go
StatusOK == 200
StatusFound == 302
StatusNotFound == 404
StatusMethodNotAllowed == 405

routeOAuthRedirect == "/oauth/redirect"
routeUserConnect == "/user/connect"
routeTest == "/test"

SeqsUpTo(S, n) == UNION {[1..k -> S] : k \in 0..n}

----------------------------------------------------------------------------
(* The command line.  A raw command is a sequence of pieces: a piece is a  *)
(* run of whitespace (" ") or a word.                                      *)

Whitespace == {" "}

\* strings.Fields: the words of the line, whitespace dropped
Fields(command) == SelectSeq(command, LAMBDA p : p \notin Whitespace)

\* the line typed for a token list: tokens separated by one blank
RECURSIVE Typed(_)
Typed(tokens) ==
    IF Len(tokens) = 0 THEN <<>>
    ELSE IF Len(tokens) = 1 THEN tokens
    ELSE <<Head(tokens), " ">> \o Typed(Tail(tokens))

\* strings.Join(elems, "/")
RECURSIVE Join(_)
Join(elems) ==
    IF Len(elems) = 0 THEN ""
    ELSE IF Len(elems) = 1 THEN elems[1]
    ELSE elems[1] \o "/" \o Join(Tail(elems))

\* the text of a sequence of pieces
RECURSIVE Concat(_)
Concat(pieces) ==
    IF Len(pieces) = 0 THEN "" ELSE Head(pieces) \o Concat(Tail(pieces))

\* strconv.ParseInt(s, 10, 64): the numerals of the model and their values
Numerals == {"42", "7"}
ParseIntErr(s) == s \notin Numerals
ParseInt(s) == IF s = "42" THEN 42 ELSE IF s = "7" THEN 7 ELSE 0

----------------------------------------------------------------------------
(* The verb table *)

\* zendeskCommandHandler: the keys of its handlers map, and its default handler
zendeskCommandHandler ==
    [handlers |-> {"connect", "disconnect", "status", "latest/private", "latest/public",
                   "update/private", "update/public", "details", "help"},
     defaultHandler |-> "default"]

\* the prefix lengths n for which the join of args[:n] is a key of ch
Matches(ch, args) == {n \in 1..Len(args) : Join(SubSeq(args, 1, n)) \in ch.handlers}

Longest(ch, args) ==
    IF Matches(ch, args) = {} THEN 0
    ELSE CHOOSE n \in Matches(ch, args) : \A k \in Matches(ch, args) : k <= n

\* the loop of Handle from n downwards: the first n whose join is a key, 0 when
\* the loop ends without one
RECURSIVE HandleFrom(_, _, _)
HandleFrom(ch, args, n) ==
    IF n <= 0 THEN 0
    ELSE IF Join(SubSeq(args, 1, n)) \in ch.handlers THEN n
    ELSE HandleFrom(ch, args, n - 1)

\* Handle with the loop running upwards: the shortest prefix wins
HandleShortestFirst(ch, args) ==
    LET m == Matches(ch, args)
        n == IF m = {} THEN 0 ELSE CHOOSE k \in m : \A j \in m : k <= j
    IN  [handler |-> IF n = 0 THEN ch.defaultHandler ELSE Join(SubSeq(args, 1, n)),
         hargs |-> SubSeq(args, n + 1, Len(args))]

\* Handle with the default handler given only what no prefix consumed
HandleDefaultTail(ch, args) ==
    LET n == HandleFrom(ch, args, Len(args))
    IN  [handler |-> IF n = 0 THEN ch.defaultHandler ELSE Join(SubSeq(args, 1, n)),
         hargs |-> IF n = 0 THEN SubSeq(args, 2, Len(args))
                   ELSE SubSeq(args, n + 1, Len(args))]

\* CommandHandler.Handle: the handler chosen and the arguments it is given
Handle(ch, args) ==
    LET n == HandleFrom(ch, args, Len(args))
    IN  [handler |-> IF n = 0 THEN ch.defaultHandler ELSE Join(SubSeq(args, 1, n)),
         hargs |-> SubSeq(args, n + 1, Len(args))]

----------------------------------------------------------------------------
(* The collaborators: configuration, url.Parse, the Zendesk client library *)
(* and the Mattermost API.  What they answer is an input of the invocation.*)

\* values of configuration.ZendeskURL
ZendeskURLs ==
    {"https://acme.zendesk.com", "https://acme.zendesk.com/agent",
     "acme.zendesk.com", "%zz"}

\* url.Parse: err, and the Host of the URL it returns (nil URL on error)
UrlParse(rawurl) ==
    IF rawurl = "%zz" THEN [err |-> TRUE, Host |-> NoValue]
    ELSE IF rawurl = "acme.zendesk.com" THEN [err |-> FALSE, Host |-> ""]
    ELSE [err |-> FALSE, Host |-> "acme.zendesk.com"]

\* strings.Split(host, ".")[0]
FirstLabel(host) == IF host = "acme.zendesk.com" THEN "acme" ELSE host

CommentBody(i) == "comment" \o ToString(i)

\* a result of ListTicketComments: comment i is public or not, oldest first
CommentLists ==
    {[i \in 1..Len(f) |-> [Public |-> f[i], Body |-> CommentBody(i)]] :
        f \in SeqsUpTo(BOOLEAN, MaxComments)}

\* results of ShowTicket: the Status and OrganizationID pointers may be nil
Tickets == [Status : {NoValue, "open"}, OrganizationID : {NoValue, "org7"}]

DefaultEnv ==
    [url |-> "https://acme.zendesk.com", newClient |-> "ok", call |-> "ok",
     ticket |-> [Status |-> "open", OrganizationID |-> NoValue],
     comments |-> <<>>, org |-> "ok", getUser |-> "ok"]

\* the answers a handler can observe.  The answers it never asks for stay at
\* their default, and so do the answers behind a failed step; every configured
\* URL is tried, and every answer of the Zendesk API under the default URL
EnvsFor(handler) ==
    LET urls == {[DefaultEnv EXCEPT !.url = rawurl] : rawurl \in ZendeskURLs}
        failing == {[DefaultEnv EXCEPT !.newClient = "err"],
                    [DefaultEnv EXCEPT !.call = "err"]}
    IN  CASE handler = "connect" ->
               {DefaultEnv, [DefaultEnv EXCEPT !.getUser = "err"]}
          [] handler = "status" ->
               urls \cup failing \cup
               {[DefaultEnv EXCEPT !.ticket.Status = st] : st \in {NoValue, "open"}}
          [] handler = "details" ->
               urls \cup failing \cup
               {[DefaultEnv EXCEPT !.ticket = t] : t \in Tickets} \cup
               {[DefaultEnv EXCEPT !.ticket = t, !.org = "err"] :
                   t \in {t \in Tickets : t.OrganizationID # NoValue}}
          [] handler \in {"latest/private", "latest/public"} ->
               urls \cup failing \cup
               {[DefaultEnv EXCEPT !.comments = c] : c \in CommentLists}
          [] handler \in {"update/private", "update/public"} ->
               urls \cup failing
          [] OTHER -> {DefaultEnv}

----------------------------------------------------------------------------
(* What a handler does: the token map it leaves, the messages it posts to  *)
(* the user, the Zendesk calls it makes, the response it returns, or the   *)
(* panic it ends in.                                                       *)

helpText == "Mattermost Zendesk Plugin - Slash Command Help"
pleaseConnect == "Please connect to Zendesk"

NoCalls == <<>>

\* p.responsef / p.postCommandResponse followed by return &model.CommandResponse{}
Respond(map, text, calls) ==
    [map |-> map, posts |-> <<text>>, calls |-> calls, resp |-> "empty", panic |-> FALSE,
     asked |-> FALSE, comments |-> <<>>]

\* a runtime panic: nothing is posted and nothing is returned
Panic(map, calls) ==
    [map |-> map, posts |-> <<>>, calls |-> calls, resp |-> "none", panic |-> TRUE,
     asked |-> FALSE, comments |-> <<>>]

\* the result of a handler that received ticketComments from ListTicketComments
Listed(res, ticketComments) == [res EXCEPT !.comments = ticketComments]

\* the result of a handler that turned to a collaborator (the configuration,
\* the Zendesk client, the Mattermost API) on its way
Asked(res) == [res EXCEPT !.asked = TRUE]

\* a call to the Zendesk API
Call(api, cred, token, host, ticket, public, body) ==
    [api |-> api, cred |-> cred, token |-> token, host |-> host,
     ticket |-> ticket, public |-> public, body |-> body, err |-> FALSE]

\* the same call, answered with an error
Failed(call) == [call EXCEPT !.err = TRUE]

\* Plugin.help
help(map) == Respond(map, helpText, NoCalls)

commandHelp(map, UserId, args, command, env) == help(map)

executeZendeskDefault(map, UserId, args, command, env) == help(map)

executeConnect(map, UserId, args, command, env) ==
    IF Len(args) # 0 THEN help(map)
    ELSE IF env.getUser = "err" THEN Asked(help(map))
    ELSE Asked(Respond(map, "Click here to link your Zendesk account", NoCalls))

executeDisconnectKeep(map, UserId, args, command, env) ==
    IF Len(args) # 0 THEN help(map)
    ELSE IF UserId \in DOMAIN map THEN Respond(map, "Disconnected", NoCalls)
    ELSE Respond(map, "You are not connected. To connect run /zendesk connect.", NoCalls)

\* executeDisconnect that empties the whole token map
executeDisconnectAll(map, UserId, args, command, env) ==
    IF Len(args) # 0 THEN help(map)
    ELSE IF UserId \in DOMAIN map
    THEN Respond([u \in {} |-> ""], "Disconnected", NoCalls)
    ELSE Respond(map, "You are not connected. To connect run /zendesk connect.", NoCalls)

executeDisconnect(map, UserId, args, command, env) ==
    IF Len(args) # 0 THEN help(map)
    ELSE IF UserId \in DOMAIN map
    THEN Respond([u \in DOMAIN map \ {UserId} |-> map[u]], "Disconnected", NoCalls)
    ELSE Respond(map, "You are not connected. To connect run /zendesk connect.", NoCalls)

----------------------------------------------------------------------------
(* The ticket handlers *)

usageStatus == "Please specify a case number in the form /zendesk status <case-number>."
usageLatestPrivate == "Please specify a case number in the form /zendesk latest private <case-number>."
usageLatestPublic == "Please specify a case number in the form /zendesk latest public <case-number>."
parseIntError == "strconv.ParseInt: invalid syntax"
newClientError == "zendesk: cannot create the client"
upstreamError == "zendesk: the request failed"

\* the first piece at or after i that is not whitespace (Len + 1 when none is)
RECURSIVE SkipSpace(_, _)
SkipSpace(command, i) ==
    IF i > Len(command) \/ command[i] \notin Whitespace THEN i
    ELSE SkipSpace(command, i + 1)

\* parseCommentLine with the pattern (\/zendesk\s*update\s*<word>\s*\d*)(.*):
\* the leftmost match is replaced by its second group, the text after the digits
parseCommentLine(word, command) ==
    LET starts == {i \in 1..Len(command) : command[i] = "/zendesk"}
    IN  IF starts = {} THEN Concat(command)
        ELSE
          LET s == CHOOSE i \in starts : \A j \in starts : i <= j
              a == SkipSpace(command, s + 1)
              b == SkipSpace(command, a + 1)
              c == SkipSpace(command, b + 1)
              d == IF c <= Len(command) /\ command[c] \in Numerals THEN c + 1 ELSE c
              matched == /\ a <= Len(command) /\ command[a] = "update"
                         /\ b <= Len(command) /\ command[b] = word
          IN  IF matched
              THEN Concat(SubSeq(command, 1, s - 1)) \o Concat(SubSeq(command, d, Len(command)))
              ELSE Concat(command)

\* the loop running from the oldest comment: the first comment with the flag
FirstWith(ticketComments, pub, i) ==
    LET m == {k \in 1..i : ticketComments[k].Public = pub}
    IN  IF m = {} THEN 0 ELSE CHOOSE k \in m : \A j \in m : k <= j

\* the loops of executeLatestPrivate / executeLatestPublic: the index of the
\* last comment whose Public flag is pub, 0 when the loop ends without a break
RECURSIVE LastWith(_, _, _)
LastWith(ticketComments, pub, i) ==
    IF i <= 0 THEN 0
    ELSE IF ticketComments[i].Public = pub THEN i
    ELSE LastWith(ticketComments, pub, i - 1)

executeStatusShared(map, UserId, args, command, env) ==
    IF Len(args) # 1 THEN Respond(map, usageStatus, NoCalls)
    ELSE IF ParseIntErr(args[1]) THEN Respond(map, parseIntError, NoCalls)
    ELSE
      LET call == Call("ShowTicket", "shared", "", "acme", ParseInt(args[1]), "n/a", "")
      IN  Asked(IF env.call = "err" THEN Respond(map, upstreamError, <<Failed(call)>>)
          ELSE IF env.ticket.Status = NoValue THEN Panic(map, <<call>>)
          ELSE Respond(map, env.ticket.Status, <<call>>))

\* executeStatus without the checks on its arguments
executeStatusUnchecked(map, UserId, args, command, env) ==
    IF UserId \in DOMAIN map
    THEN
      LET token == map[UserId]
          call == Call("ShowTicket", "oauth", token, "acme",
                       IF Len(args) = 0 THEN 0 ELSE ParseInt(args[1]), "n/a", "")
      IN  Asked(IF env.call = "err" THEN Respond(map, upstreamError, <<Failed(call)>>)
          ELSE Respond(map, "open", <<call>>))
    ELSE Respond(map, pleaseConnect, NoCalls)

executeStatus(map, UserId, args, command, env) ==
    IF Len(args) # 1 THEN Respond(map, usageStatus, NoCalls)
    ELSE IF ParseIntErr(args[1]) THEN Respond(map, parseIntError, NoCalls)
    ELSE IF UserId \in DOMAIN map
    THEN
      LET token == map[UserId]
          u == UrlParse(env.url)
          clientHost == FirstLabel(u.Host)
          call == Call("ShowTicket", "oauth", token, clientHost, ParseInt(args[1]), "n/a", "")
      IN  Asked(IF u.err THEN Panic(map, NoCalls)
          ELSE IF env.newClient = "err" THEN Respond(map, newClientError, NoCalls)
          ELSE IF env.call = "err" THEN Respond(map, upstreamError, <<Failed(call)>>)
          ELSE IF env.ticket.Status = NoValue THEN Panic(map, <<call>>)
          ELSE Respond(map, env.ticket.Status, <<call>>))
    ELSE Respond(map, pleaseConnect, NoCalls)

executeDetailsShared(map, UserId, args, command, env) ==
    IF Len(args) # 1 THEN Respond(map, usageStatus, NoCalls)
    ELSE IF ParseIntErr(args[1]) THEN Respond(map, parseIntError, NoCalls)
    ELSE
      LET call == Call("ShowTicket", "shared", "", "acme", ParseInt(args[1]), "n/a", "")
          orgCall == Call("ShowOrganization", "shared", "", "acme", 0, "n/a", "")
      IN  Asked(IF env.call = "err" THEN Respond(map, upstreamError, <<Failed(call)>>)
          ELSE IF env.ticket.OrganizationID # NoValue /\ env.org = "err"
          THEN Respond(map, upstreamError, <<call, Failed(orgCall)>>)
          ELSE Respond(map, "attachment",
                       IF env.ticket.OrganizationID # NoValue
                       THEN <<call, orgCall>> ELSE <<call>>))

executeDetails(map, UserId, args, command, env) ==
    IF Len(args) # 1 THEN Respond(map, usageStatus, NoCalls)
    ELSE IF ParseIntErr(args[1]) THEN Respond(map, parseIntError, NoCalls)
    ELSE IF UserId \in DOMAIN map
    THEN
      LET token == map[UserId]
          u == UrlParse(env.url)
          clientHost == FirstLabel(u.Host)
          call == Call("ShowTicket", "oauth", token, clientHost, ParseInt(args[1]), "n/a", "")
          \* p.zendeskClient.ShowOrganization: the client OnActivate built
          orgCall == Call("ShowOrganization", "shared", "", "acme", 0, "n/a", "")
      IN  Asked(IF u.err THEN Panic(map, NoCalls)
          ELSE IF env.newClient = "err" THEN Respond(map, newClientError, NoCalls)
          ELSE IF env.call = "err" THEN Respond(map, upstreamError, <<Failed(call)>>)
          ELSE IF env.ticket.OrganizationID # NoValue /\ env.org = "err"
          THEN Respond(map, upstreamError, <<call, Failed(orgCall)>>)
          ELSE Respond(map, "attachment",
                       IF env.ticket.OrganizationID # NoValue
                       THEN <<call, orgCall>> ELSE <<call>>))
    ELSE Respond(map, pleaseConnect, NoCalls)

\* the body of executeUpdatePrivate / executeUpdatePublic after the word of
\* the verb and the visibility are fixed
executeUpdate(word, label, map, UserId, args, command, env) ==
    IF Len(args) = 0 THEN Panic(map, NoCalls)   \* args[0]: index out of range
    ELSE IF ParseIntErr(args[1]) THEN Respond(map, parseIntError, NoCalls)
    ELSE
      LET ticketNumber == ParseInt(args[1])
          commentLine == parseCommentLine(word, command)
      IN  IF UserId \in DOMAIN map
          THEN
            LET token == map[UserId]
                u == UrlParse(env.url)
                clientHost == FirstLabel(u.Host)
                call == Call("UpdateTicket", "oauth", token, clientHost,
                             ticketNumber, word, commentLine)
            IN  Asked(IF u.err THEN Panic(map, NoCalls)
                ELSE IF env.newClient = "err" THEN Respond(map, newClientError, NoCalls)
                ELSE IF env.call = "err" THEN Respond(map, upstreamError, <<Failed(call)>>)
                ELSE Respond(map,
                             label \o " comment [" \o commentLine
                                 \o "] was added to ticket #" \o ToString(ticketNumber),
                             <<call>>))
          ELSE Respond(map, pleaseConnect, NoCalls)

executeUpdatePrivate(map, UserId, args, command, env) ==
    executeUpdate("private", "Private", map, UserId, args, command, env)

\* executeUpdatePublic with isPublic := false
executeUpdatePublicHidden(map, UserId, args, command, env) ==
    LET res == executeUpdate("public", "Public", map, UserId, args, command, env)
    IN  [res EXCEPT !.calls = [i \in 1..Len(res.calls) |->
                                  [res.calls[i] EXCEPT !.public = "private"]]]

executeUpdatePublic(map, UserId, args, command, env) ==
    executeUpdate("public", "Public", map, UserId, args, command, env)

\* the body of executeLatestPrivate / executeLatestPublic: pub is the Public
\* flag the loop looks for
executeLatest(pub, usage, map, UserId, args, command, env) ==
    IF Len(args) # 1 THEN Respond(map, usage, NoCalls)
    ELSE IF ParseIntErr(args[1]) THEN Respond(map, parseIntError, NoCalls)
    ELSE IF UserId \in DOMAIN map
    THEN
      LET token == map[UserId]
          u == UrlParse(env.url)
          clientHost == FirstLabel(u.Host)
          call == Call("ListTicketComments", "oauth", token, clientHost,
                       ParseInt(args[1]), "n/a", "")
          ticketComments == env.comments
          i == LastWith(ticketComments, pub, Len(ticketComments))
      IN  Asked(IF u.err THEN Panic(map, NoCalls)
          ELSE IF env.newClient = "err" THEN Respond(map, newClientError, NoCalls)
          ELSE IF env.call = "err" THEN Respond(map, upstreamError, <<Failed(call)>>)
          \* no break: the comment is the zero value, its Body a nil pointer
          ELSE IF i = 0 THEN Listed(Panic(map, <<call>>), ticketComments)
          ELSE Listed(Respond(map, ticketComments[i].Body, <<call>>), ticketComments))
    ELSE Respond(map, pleaseConnect, NoCalls)

executeLatestPrivate(map, UserId, args, command, env) ==
    executeLatest(FALSE, usageLatestPrivate, map, UserId, args, command, env)

executeLatestPublic(map, UserId, args, command, env) ==
    executeLatest(TRUE, usageLatestPublic, map, UserId, args, command, env)

\* the call h(p, c, header, args...) of Handle, h the handler under key.  A key
\* outside zendeskCommandHandler (a verb table of RouteSpec) is bound to commandHelp
Invoke(key, map, UserId, args, command, env) ==
    CASE key = "connect" -> executeConnect(map, UserId, args, command, env)
      [] key = "disconnect" -> executeDisconnect(map, UserId, args, command, env)
      [] key = "status" -> executeStatus(map, UserId, args, command, env)
      [] key = "latest/private" -> executeLatestPrivate(map, UserId, args, command, env)
      [] key = "latest/public" -> executeLatestPublic(map, UserId, args, command, env)
      [] key = "update/private" -> executeUpdatePrivate(map, UserId, args, command, env)
      [] key = "update/public" -> executeUpdatePublic(map, UserId, args, command, env)
      [] key = "details" -> executeDetails(map, UserId, args, command, env)
      [] key = "default" -> executeZendeskDefault(map, UserId, args, command, env)
      [] OTHER -> commandHelp(map, UserId, args, command, env)

\* the handler ExecuteCommand reaches for the words of a command line, and
\* the arguments it passes: "none" when the line does not start with the trigger
Routed(ch, args) ==
    IF Len(args) = 0 \/ args[1] # "/zendesk"
    THEN [handler |-> "none", hargs |-> <<>>]
    ELSE Handle(ch, Tail(args))

\* ExecuteCommand that routes the words of a line without the trigger too
ExecuteCommandAnyTrigger(ch, map, UserId, command, env) ==
    LET args == Fields(command)
    IN  IF Len(args) = 0 THEN help(map)
        ELSE LET h == Handle(ch, IF args[1] = "/zendesk" THEN Tail(args) ELSE args)
             IN  Invoke(h.handler, map, UserId, h.hargs, command, env)

\* Plugin.ExecuteCommand with ch for the command handler
ExecuteCommandWith(ch, map, UserId, command, env) ==
    LET args == Fields(command)
    IN  IF Len(args) = 0 \/ args[1] # "/zendesk" THEN help(map)
        ELSE LET h == Handle(ch, Tail(args))
             IN  Invoke(h.handler, map, UserId, h.hargs, command, env)

\* Plugin.ExecuteCommand
ExecuteCommand(map, UserId, command, env) ==
    ExecuteCommandWith(zendeskCommandHandler, map, UserId, command, env)

----------------------------------------------------------------------------
(* The HTTP entry point *)

\* status codes the token endpoint answers with
StatusCodes == {199, 200, 299, 300, 399, 400, 500}

NoExchange ==
    [parseForm |-> "ok", transport |-> "ok", StatusCode |-> 0,
     decode |-> "ok", AccessToken |-> ""]

\* what an OAuth callback meets: r.ParseForm, httpClient.Do, the status code
\* of the answer, and the decoding of its body
Exchanges ==
    {[NoExchange EXCEPT !.parseForm = "err"], [NoExchange EXCEPT !.transport = "err"]}
    \cup {[NoExchange EXCEPT !.StatusCode = c] :
            c \in {c \in StatusCodes : c < 200 \/ c >= 400}}
    \cup {[NoExchange EXCEPT !.StatusCode = c, !.decode = "err"] :
            c \in {c \in StatusCodes : c >= 200 /\ c < 400}}
    \cup {[NoExchange EXCEPT !.StatusCode = c, !.AccessToken = t] :
            c \in {c \in StatusCodes : c >= 200 /\ c < 400}, t \in Tokens}

HttpResult(map, status, body, redirect) ==
    [map |-> map, status |-> status, body |-> body, redirect |-> redirect]

Put(map, key, value) ==
    [u \in DOMAIN map \cup {key} |-> IF u = key THEN value ELSE map[u]]

\* the guard of httpOAuthRedirect on the answer of the token endpoint
ExchangeRefused(StatusCode) == StatusCode < 200 \/ StatusCode >= 400

\* the exchange reaches the assignment to the token map
Granted(x) ==
    /\ x.parseForm = "ok" /\ x.transport = "ok"
    /\ ~ExchangeRefused(x.StatusCode) /\ x.decode = "ok"

\* httpOAuthRedirect that forgets the user's token when the exchange fails
httpOAuthRedirectForget(map, mattermostUserID, x) ==
    IF x.parseForm = "err" \/ x.transport = "err" \/ ExchangeRefused(x.StatusCode)
       \/ x.decode = "err"
    THEN HttpResult([u \in DOMAIN map \ {mattermostUserID} |-> map[u]], StatusOK,
                    "Something went wrong", FALSE)
    ELSE HttpResult(Put(map, mattermostUserID, x.AccessToken), StatusOK,
                    "Successfully connected mattermost account", FALSE)

httpOAuthRedirect(map, mattermostUserID, x) ==
    IF x.parseForm = "err" THEN HttpResult(map, StatusOK, "Something went wrong", FALSE)
    ELSE IF x.transport = "err" THEN HttpResult(map, StatusOK, "Something went wrong", FALSE)
    ELSE IF ExchangeRefused(x.StatusCode)
    THEN HttpResult(map, StatusOK, "Could not obtain OAuth access token from zendesk", FALSE)
    ELSE IF x.decode = "err" THEN HttpResult(map, StatusOK, "Something went wrong", FALSE)
    ELSE HttpResult(Put(map, mattermostUserID, x.AccessToken), StatusOK,
                    "Successfully connected mattermost account", FALSE)

\* httpUserConnect without the check of the method
httpUserConnectAnyMethod(map, Method) ==
    HttpResult(map, StatusFound, "/oauth/authorizations/new", TRUE)

httpUserConnect(map, Method) ==
    IF Method # "GET"
    THEN HttpResult(map, StatusMethodNotAllowed, "method is not allowed, must be GET", FALSE)
    ELSE HttpResult(map, StatusFound, "/oauth/authorizations/new", TRUE)

handleTest(map) == HttpResult(map, StatusOK, "Hello, world!", FALSE)

\* handleHTTPRequest, and the status ServeHTTP writes for what it returns
ServeHTTP(map, Path, Method, mattermostUserID, x) ==
    IF Path = routeUserConnect THEN httpUserConnect(map, Method)
    ELSE IF Path = routeOAuthRedirect THEN httpOAuthRedirect(map, mattermostUserID, x)
    ELSE IF Path = routeTest THEN handleTest(map)
    ELSE HttpResult(map, StatusNotFound, "not found", FALSE)

----------------------------------------------------------------------------
(* The record of the last invocation *)

NoOut ==
    [op |-> "init", user |-> "", words |-> <<>>, args |-> <<>>, handler |-> "none",
     hargs |-> <<>>,
     posts |-> <<>>, calls |-> <<>>, comments |-> <<>>, resp |-> "none",
     panic |-> FALSE, url |-> "", path |-> "", method |-> "", exchange |-> NoExchange,
     status |-> 0, body |-> "", redirect |-> FALSE]

NoPending == [set |-> FALSE, ch |-> zendeskCommandHandler, command |-> <<>>]

EmptyMap == [u \in {} |-> ""]

Procs == 1..NumWorkers

Idle ==
    [pc |-> "idle", kind |-> "none", user |-> "", token |-> "", ok |-> FALSE,
     raced |-> FALSE]

\* the state OnActivate leaves: an empty token map
Init ==
    /\ oauthAccessTokenMap = EmptyMap
    /\ out = NoOut
    /\ pending = NoPending
    /\ workers = [w \in Procs |-> Idle]
    /\ fatal = FALSE

\* the record of a command
CommandOut(UserId, args, h, res, env) ==
    [NoOut EXCEPT !.op = "command", !.user = UserId, !.words = args,
                  !.args = IF h.handler = "none" THEN <<>> ELSE Tail(args),
                  !.handler = h.handler, !.hargs = h.hargs,
                  !.posts = res.posts, !.calls = res.calls,
                  !.comments = res.comments,
                  !.resp = res.resp, !.panic = res.panic,
                  !.url = IF res.asked THEN env.url ELSE ""]

\* the answers of the collaborators for one command: all of EnvsFor when the
\* handler turns to them, the default alone when it never asks
Answers(ch, map, UserId, command, handler) ==
    IF ExecuteCommandWith(ch, map, UserId, command, DefaultEnv).asked
    THEN EnvsFor(handler) ELSE {DefaultEnv}

----------------------------------------------------------------------------
(* Spec: invocations one after the other *)

Operands == {"42", "abc"}

VerbPaths ==
    {<<"connect">>, <<"disconnect">>, <<"status">>, <<"details">>, <<"help">>,
     <<"latest", "private">>, <<"latest", "public">>,
     <<"update", "private">>, <<"update", "public">>,
     <<>>, <<"latest">>, <<"update">>, <<"bogus">>}

\* lines that do not start with the trigger: the empty line, a blank line,
\* another trigger, a verb typed without the trigger
OtherLines ==
    {<<>>, <<" ">>, Typed(<<"/jira", "status", "42">>), Typed(<<"disconnect">>),
     Typed(<<"zendesk", "disconnect">>)}

\* the command lines of Spec: the trigger, a verb path and operands, and the
\* lines without the trigger
CommandLines ==
    {Typed(<<"/zendesk">> \o v \o ops) :
        v \in VerbPaths, ops \in SeqsUpTo(Operands, MaxOperands)}
    \cup OtherLines

\* a user runs a slash command
Command ==
    /\ ~out.panic
    /\ \E UserId \in UserIDs, command \in CommandLines :
         LET args == Fields(command)
             h == Routed(zendeskCommandHandler, args)
         IN  \E env \in Answers(zendeskCommandHandler, oauthAccessTokenMap,
                                UserId, command, h.handler) :
               LET res == ExecuteCommand(oauthAccessTokenMap, UserId, command, env)
               IN  /\ oauthAccessTokenMap' = res.map
                   /\ out' = CommandOut(UserId, args, h, res, env)
    /\ UNCHANGED <<pending, workers, fatal>>

Paths == {routeUserConnect, routeOAuthRedirect, routeTest, "/other"}

\* an HTTP request reaches the plugin
Request ==
    /\ ~out.panic
    /\ \E Path \in Paths, Method \in {"GET", "POST"}, id \in HeaderIDs, x \in Exchanges :
         /\ Path # routeOAuthRedirect => x = [NoExchange EXCEPT !.parseForm = "err"]
         /\ Path = routeOAuthRedirect => Method = "GET"
         /\ LET res == ServeHTTP(oauthAccessTokenMap, Path, Method, id, x)
            IN  /\ oauthAccessTokenMap' = res.map
                /\ out' = [NoOut EXCEPT !.op = "http", !.user = id, !.path = Path,
                                        !.method = Method, !.exchange = x,
                                        !.status = res.status, !.body = res.body,
                                        !.redirect = res.redirect]
    /\ UNCHANGED <<pending, workers, fatal>>

\* the host starts the plugin again after a panic ended its process:
\* OnActivate makes a new, empty token map
OnActivate ==
    /\ out.panic
    /\ oauthAccessTokenMap' = EmptyMap
    /\ out' = [NoOut EXCEPT !.op = "activate"]
    /\ UNCHANGED <<pending, workers, fatal>>

Next == Command \/ Request \/ OnActivate

Spec == Init /\ [][Next]_vars

----------------------------------------------------------------------------
(* RouteSpec: ExecuteCommand applied once to an arbitrary list of words,   *)
(* under the verb table of the plugin and under tables in which one key is *)
(* a prefix of another.                                                    *)

Words ==
    {"connect", "disconnect", "status", "details", "help", "latest", "update",
     "private", "public", "latest/private", "42", "abc"}

VerbTables ==
    {zendeskCommandHandler,
     [zendeskCommandHandler EXCEPT !.handlers = @ \cup {"update", "latest"}],
     [zendeskCommandHandler EXCEPT !.handlers = @ \cup {"status/42", "help/help/help"}]}

RouteInit ==
    /\ oauthAccessTokenMap \in {EmptyMap, Put(EmptyMap, "u1", "tokA")}
    /\ out = NoOut
    /\ pending \in {[set |-> TRUE, ch |-> ch, command |-> Typed(<<"/zendesk">> \o a)] :
                      ch \in VerbTables, a \in SeqsUpTo(Words, MaxArgs)}
    /\ workers = [w \in Procs |-> Idle]
    /\ fatal = FALSE

\* user u1 runs the pending command line
Dispatch ==
    /\ pending.set
    /\ LET args == Fields(pending.command)
           h == Routed(pending.ch, args)
       IN  \E env \in Answers(pending.ch, oauthAccessTokenMap, "u1",
                              pending.command, h.handler) :
             LET res == ExecuteCommandWith(pending.ch, oauthAccessTokenMap, "u1",
                                           pending.command, env)
             IN  /\ oauthAccessTokenMap' = res.map
                 /\ out' = CommandOut("u1", args, h, res, env)
    /\ pending' = [pending EXCEPT !.set = FALSE]
    /\ UNCHANGED <<workers, fatal>>

RouteNext == Dispatch

RouteSpec == RouteInit /\ [][RouteNext]_vars

----------------------------------------------------------------------------
(* CommentSpec: ExecuteCommand applied once to an update command typed     *)
(* with any amount of whitespace between its words.                        *)

\* a run of n blanks
Blanks(n) == [i \in 1..n |-> " "]

Gaps == {Blanks(n) : n \in 1..MaxBlanks}

\* the lines "/zendesk update <word> <id> hello world"
CommentLines ==
    {<<"/zendesk">> \o g1 \o <<"update">> \o g2 \o <<word>> \o g3 \o <<id>>
        \o g4 \o <<"hello">> \o g5 \o <<"world">> :
        g1 \in Gaps, g2 \in Gaps, g3 \in Gaps, g4 \in Gaps, g5 \in Gaps,
        word \in {"private", "public"}, id \in Numerals}

CommentInit ==
    /\ oauthAccessTokenMap \in {EmptyMap, Put(EmptyMap, "u1", "tokA")}
    /\ out = NoOut
    /\ pending \in {[set |-> TRUE, ch |-> zendeskCommandHandler, command |-> line] :
                      line \in CommentLines}
    /\ workers = [w \in Procs |-> Idle]
    /\ fatal = FALSE

CommentNext == Dispatch

CommentSpec == CommentInit /\ [][CommentNext]_vars

----------------------------------------------------------------------------
(* ConcSpec: the host runs every command and every HTTP request on a       *)
(* worker of its own.  The token map is a plain Go map with no lock around *)
(* it, so an access is two steps, its begin and its end, and accesses of   *)
(* different workers overlap.  When an access overlaps a write the Go      *)
(* runtime may end the process ("concurrent map writes", "concurrent map   *)
(* read and map write"), or the access goes through and its effect may be  *)
(* lost.                                                                   *)

InMap(w) == workers[w].pc \in {"reading", "writing"}

\* the accesses of other workers that conflict with an access of w
Conflicts(w, writing) ==
    {v \in Procs \ {w} :
        workers[v].pc = "writing" \/ (writing /\ workers[v].pc = "reading")}

\* w enters the map: the workers whose accesses it overlaps are marked, and so is w
Enter(w, pc, writing) ==
    [v \in Procs |->
        IF v = w
        THEN [workers[w] EXCEPT !.pc = pc, !.raced = Conflicts(w, writing) # {}]
        ELSE IF v \in Conflicts(w, writing) THEN [workers[v] EXCEPT !.raced = TRUE]
        ELSE workers[v]]

Remove(map, key) == [u \in DOMAIN map \ {key} |-> map[u]]

\* /oauth/redirect arrives for user: the token exchange is on its way
StartCallback(w) ==
    /\ ~fatal /\ workers[w].pc = "idle"
    /\ \E user \in UserIDs :
         workers' = [workers EXCEPT ![w] =
                        [Idle EXCEPT !.pc = "exchange", !.kind = "callback", !.user = user]]
    /\ UNCHANGED <<oauthAccessTokenMap, out, pending, fatal>>

\* httpOAuthRedirect up to line 197: the exchange answers
ExchangeReturn(w) ==
    /\ ~fatal /\ workers[w].pc = "exchange"
    /\ \E x \in Exchanges :
         workers' = [workers EXCEPT ![w] =
                        IF Granted(x)
                        THEN [@ EXCEPT !.pc = "store", !.token = x.AccessToken, !.ok = TRUE]
                        ELSE [@ EXCEPT !.pc = "done"]]
    /\ UNCHANGED <<oauthAccessTokenMap, out, pending, fatal>>

\* a ticket command (status, details, latest, update) of user arrives with
\* well-formed arguments
StartCommand(w) ==
    /\ ~fatal /\ workers[w].pc = "idle"
    /\ \E user \in UserIDs :
         workers' = [workers EXCEPT ![w] =
                        [Idle EXCEPT !.pc = "lookup", !.kind = "command", !.user = user]]
    /\ UNCHANGED <<oauthAccessTokenMap, out, pending, fatal>>

\* the disconnect command of user arrives
StartDisconnect(w) ==
    /\ ~fatal /\ workers[w].pc = "idle"
    /\ \E user \in UserIDs :
         workers' = [workers EXCEPT ![w] =
                        [Idle EXCEPT !.pc = "lookup", !.kind = "disconnect", !.user = user]]
    /\ UNCHANGED <<oauthAccessTokenMap, out, pending, fatal>>

\* token, ok := p.oauthAccessTokenMap[UserId] begins
ReadBegin(w) ==
    /\ ~fatal /\ workers[w].pc = "lookup"
    /\ workers' = Enter(w, "reading", FALSE)
    /\ fatal' \in IF Conflicts(w, FALSE) # {} THEN BOOLEAN ELSE {FALSE}
    /\ UNCHANGED <<oauthAccessTokenMap, out, pending>>

\* the lookup ending with the entry of any user of the map
ReadEndAnyUser(w) ==
    /\ ~fatal /\ workers[w].pc = "reading"
    /\ \E u \in DOMAIN oauthAccessTokenMap \cup {""} :
         workers' = [workers EXCEPT ![w] =
                        IF u \in DOMAIN oauthAccessTokenMap
                        THEN [@ EXCEPT !.pc = IF workers[w].kind = "command"
                                              THEN "call" ELSE "store",
                                       !.token = oauthAccessTokenMap[u],
                                       !.ok = TRUE, !.raced = FALSE]
                        ELSE [@ EXCEPT !.pc = "done", !.raced = FALSE]]
    /\ UNCHANGED <<oauthAccessTokenMap, out, pending, fatal>>

\* the lookup ends: a lookup that overlapped a write may miss the entry
ReadEnd(w) ==
    /\ ~fatal /\ workers[w].pc = "reading"
    /\ \E found \in IF workers[w].raced
                    THEN {workers[w].user \in DOMAIN oauthAccessTokenMap, FALSE}
                    ELSE {workers[w].user \in DOMAIN oauthAccessTokenMap} :
         workers' = [workers EXCEPT ![w] =
                        IF found
                        THEN [@ EXCEPT !.pc = IF workers[w].kind = "command"
                                              THEN "call" ELSE "store",
                                       !.token = oauthAccessTokenMap[workers[w].user],
                                       !.ok = TRUE, !.raced = FALSE]
                        ELSE [@ EXCEPT !.pc = "done", !.raced = FALSE]]
    /\ UNCHANGED <<oauthAccessTokenMap, out, pending, fatal>>

\* the assignment of line 199, or the delete of executeDisconnect, begins
WriteBegin(w) ==
    /\ ~fatal /\ workers[w].pc = "store"
    /\ workers' = Enter(w, "writing", TRUE)
    /\ fatal' \in IF Conflicts(w, TRUE) # {} THEN BOOLEAN ELSE {FALSE}
    /\ UNCHANGED <<oauthAccessTokenMap, out, pending>>

\* the write ends: a write that overlapped another access may be lost
WriteEnd(w) ==
    /\ ~fatal /\ workers[w].pc = "writing"
    /\ LET written == IF workers[w].kind = "callback"
                      THEN Put(oauthAccessTokenMap, workers[w].user, workers[w].token)
                      ELSE Remove(oauthAccessTokenMap, workers[w].user)
       IN  oauthAccessTokenMap' \in
               IF workers[w].raced THEN {written, oauthAccessTokenMap} ELSE {written}
    /\ workers' = [workers EXCEPT ![w] = [@ EXCEPT !.pc = "done", !.raced = FALSE]]
    /\ UNCHANGED <<out, pending, fatal>>

\* the client is built with the token looked up and its request to Zendesk
\* is sent
CallBegin(w) ==
    /\ ~fatal /\ workers[w].pc = "call"
    /\ workers' = [workers EXCEPT ![w] = [@ EXCEPT !.pc = "await"]]
    /\ UNCHANGED <<oauthAccessTokenMap, out, pending, fatal>>

\* the call to Zendesk returns
CallReturn(w) ==
    /\ ~fatal /\ workers[w].pc = "await"
    /\ workers' = [workers EXCEPT ![w] = [@ EXCEPT !.pc = "done"]]
    /\ UNCHANGED <<oauthAccessTokenMap, out, pending, fatal>>

\* the invocation returns and the worker is free again
Finish(w) ==
    /\ ~fatal /\ workers[w].pc = "done"
    /\ workers' = [workers EXCEPT ![w] = Idle]
    /\ UNCHANGED <<oauthAccessTokenMap, out, pending, fatal>>

ConcNext ==
    \E w \in Procs :
        \/ StartCallback(w) \/ ExchangeReturn(w)
        \/ StartCommand(w) \/ StartDisconnect(w)
        \/ ReadBegin(w) \/ ReadEnd(w)
        \/ WriteBegin(w) \/ WriteEnd(w)
        \/ CallBegin(w) \/ CallReturn(w) \/ Finish(w)

ConcSpec == Init /\ [][ConcNext]_vars

----------------------------------------------------------------------------
(* Claims *)

TicketVerbs ==
    {"status", "details", "latest/private", "latest/public",
     "update/private", "update/public"}

\* the arguments a ticket handler accepts: one numeral for status, details and
\* latest, a numeral and any text after it for update
WellFormed(handler, hargs) ==
    /\ Len(hargs) >= 1
    /\ ~ParseIntErr(hargs[1])
    /\ handler \in {"update/private", "update/public"} \/ Len(hargs) = 1

\* the words after the trigger in the line RouteSpec drew
PendingArgs == Tail(Fields(pending.command))

Dispatched == ~pending.set /\ out.op = "command"

\* C1: Handle dispatches to the handler registered under the "/"-join of the
\* first n words for the largest n in 1..len(args) whose join is a key of the
\* verb table, and passes exactly the remaining len(args)-n words, in order;
\* a shorter prefix is never chosen when a longer one is a key too.
C1_LongestPrefix ==
    (Dispatched /\ Matches(pending.ch, PendingArgs) # {}) =>
        LET n == Longest(pending.ch, PendingArgs)
        IN  /\ out.handler = Join(SubSeq(PendingArgs, 1, n))
            /\ out.hargs = SubSeq(PendingArgs, n + 1, Len(PendingArgs))
            /\ \A k \in Matches(pending.ch, PendingArgs) :
                  k < n => out.handler # Join(SubSeq(PendingArgs, 1, k))

C1_Witness ==
    /\ Dispatched
    /\ Cardinality(Matches(pending.ch, PendingArgs)) >= 2
    /\ out.handler = "status/42"
    /\ out.hargs = <<"abc">>

\* C2: Handle always ends with a handler chosen, and when no non-empty prefix
\* of the words is a key (no words at all, or "latest" or "update" alone) it
\* invokes the default handler with all the words, which posts the help text
\* and returns an empty response and no error.
C2_DefaultOnNoMatch ==
    /\ pending.set =>
          /\ HandleFrom(pending.ch, PendingArgs, Len(PendingArgs)) \in 0..Len(PendingArgs)
          /\ Handle(pending.ch, PendingArgs).handler
                \in pending.ch.handlers \cup {pending.ch.defaultHandler}
    /\ (Dispatched /\ Matches(pending.ch, PendingArgs) = {}) =>
          /\ out.handler = pending.ch.defaultHandler
          /\ out.hargs = PendingArgs
          /\ out.posts = <<helpText>>
          /\ out.calls = <<>>
          /\ out.resp = "empty"
          /\ ~out.panic

C2_Witness ==
    /\ Dispatched
    /\ pending.ch = zendeskCommandHandler
    /\ PendingArgs = <<"update", "42", "abc">>
    /\ out.handler = "default"
    /\ out.hargs = <<"update", "42", "abc">>
    /\ out.posts = <<helpText>>

\* the step is a ticket command with well-formed arguments
TicketStep ==
    /\ out'.op = "command"
    /\ out'.handler \in TicketVerbs
    /\ WellFormed(out'.handler, out'.hargs)

\* the step is an OAuth callback whose exchange succeeded
GrantedStep ==
    /\ out'.op = "http"
    /\ out'.path = routeOAuthRedirect
    /\ Granted(out'.exchange)

\* the step is the disconnect command
DisconnectStep ==
    /\ out'.op = "command"
    /\ out'.handler = "disconnect"
    /\ out'.hargs = <<>>

\* C3: the token map starts empty, so every user resolves to "not connected"
\* (the handler posts "Please connect to Zendesk" and calls nothing); a
\* successful OAuth callback for u stores exactly the exchanged token under u
\* and touches no other entry; a ticket command of a connected u calls Zendesk
\* with exactly the token stored under u, unless it ends before the call (the
\* configured URL does not parse, the client cannot be built); and disconnect
\* by u removes the entry of u and no other.
C3_ResolveFollowsConnect ==
    /\ oauthAccessTokenMap = EmptyMap
    /\ [][/\ TicketStep =>
               IF out'.user \in DOMAIN oauthAccessTokenMap
               THEN /\ out'.posts # <<pleaseConnect>>
                    /\ out'.calls = <<>> =>
                          (out'.panic \/ out'.posts = <<newClientError>>)
                    /\ out'.calls # <<>> =>
                          /\ out'.calls[1].cred = "oauth"
                          /\ out'.calls[1].token = oauthAccessTokenMap[out'.user]
                    /\ \A i \in 1..Len(out'.calls) :
                          out'.calls[i].cred = "oauth" =>
                              out'.calls[i].token = oauthAccessTokenMap[out'.user]
               ELSE /\ out'.posts = <<pleaseConnect>>
                    /\ out'.calls = <<>>
          /\ GrantedStep =>
               oauthAccessTokenMap' =
                   Put(oauthAccessTokenMap, out'.user, out'.exchange.AccessToken)
          /\ DisconnectStep =>
               oauthAccessTokenMap' = Remove(oauthAccessTokenMap, out'.user)
       ]_vars

C3_Witness ==
    /\ out.op = "command"
    /\ out.handler = "status"
    /\ out.user = "u1"
    /\ out.calls # <<>>
    /\ out.calls[1].token = "tokB"
    /\ "u2" \in DOMAIN oauthAccessTokenMap
    /\ oauthAccessTokenMap["u2"] = "tokA"
    /\ oauthAccessTokenMap["u1"] = "tokB"

\* the token endpoint answered, with a status code outside 200..299
Non2xx(x) ==
    /\ x.parseForm = "ok" /\ x.transport = "ok"
    /\ (x.StatusCode < 200 \/ x.StatusCode > 299)

\* C4: an OAuth callback whose token endpoint answers with a status code
\* outside 200..299 (3xx included) leaves the token map unchanged and answers
\* HTTP 200 with an error body.
C4_Non2xxNeverStores ==
    [][(/\ out'.op = "http"
        /\ out'.path = routeOAuthRedirect
        /\ Non2xx(out'.exchange)) =>
           /\ oauthAccessTokenMap' = oauthAccessTokenMap
           /\ out'.status = StatusOK
           /\ out'.body # "Successfully connected mattermost account"
      ]_vars

\* the workers other than w run nothing, or a callback of another user
OnlyCallbacksOfOthers(w) ==
    \A v \in Procs \ {w} :
        \/ workers[v].pc = "idle"
        \/ workers[v].kind = "callback" /\ workers[v].user # workers[w].user

\* C5: while successful OAuth callbacks of distinct users run concurrently,
\* in any interleaving of their steps, the process does not crash and the
\* write of each callback that completes puts exactly its own token under its
\* own user and leaves every other entry as it was, so that all N entries are
\* there afterwards.
C5_ConcurrentConnectsKeepAll ==
    [][/\ (\A w \in Procs :
               \/ workers[w].pc = "idle"
               \/ workers[w].kind = "callback" /\ OnlyCallbacksOfOthers(w))
            => ~fatal'
       /\ \A w \in Procs :
            (/\ workers[w].kind = "callback"
             /\ workers[w].pc = "writing"
             /\ workers'[w].pc = "done"
             /\ OnlyCallbacksOfOthers(w)) =>
                oauthAccessTokenMap' =
                    Put(oauthAccessTokenMap, workers[w].user, workers[w].token)
      ]_vars

\* C6: every read, insert and delete on the token map runs inside one lock,
\* so no two invocations are ever inside the map at the same time.
C6_MapAccessesExclusive ==
    Cardinality({w \in Procs : InMap(w)}) <= 1

\* C7: every command runs to completion without a crash, posts a message to
\* the user and returns an empty response and no error.
C7_NeverFatal ==
    out.op = "command" =>
        /\ ~out.panic
        /\ Len(out.posts) >= 1
        /\ out.resp = "empty"

\* the handler received the comments of the ticket and none has the
\* visibility it looks for
NoMatchingComment ==
    /\ out.op = "command"
    /\ out.handler \in {"latest/private", "latest/public"}
    /\ Len(out.calls) = 1
    /\ ~out.calls[1].err
    /\ LastWith(out.comments, out.handler = "latest/public", Len(out.comments)) = 0

\* C8: latest public (latest private) by a connected user with a valid ticket
\* id, on a ticket with no comment of that visibility (an empty list included),
\* reports a well-defined outcome to the user instead of dereferencing the
\* zero-valued comment.
C8_NoCommentReported ==
    NoMatchingComment =>
        /\ ~out.panic
        /\ Len(out.posts) = 1
        /\ out.resp = "empty"

BadTicketArgs(hargs) == Len(hargs) # 1 \/ hargs[1] \notin Numerals

\* C11: status and details, given an argument list that is not exactly one
\* word or whose word is not a base-10 integer, post one input-error message
\* (the usage line or the parse error), make no call to Zendesk and leave the
\* token map as it was, whether the user is connected or not.
C11_BadArgsRejected ==
    [][(/\ pending.set /\ ~pending'.set
        /\ out'.handler \in {"status", "details"}
        /\ BadTicketArgs(out'.hargs)) =>
           /\ out'.posts \in {<<usageStatus>>, <<parseIntError>>}
           /\ out'.calls = <<>>
           /\ out'.resp = "empty"
           /\ ~out'.panic
           /\ oauthAccessTokenMap' = oauthAccessTokenMap
      ]_vars

C11_Witness ==
    /\ Dispatched
    /\ out.handler = "status"
    /\ out.hargs = <<"abc">>
    /\ "u1" \in DOMAIN oauthAccessTokenMap
    /\ out.posts = <<parseIntError>>
    /\ out.calls = <<>>

\* the text of the pending line from its word "hello" on, as typed
TypedText ==
    LET i == CHOOSE k \in 1..Len(pending.command) : pending.command[k] = "hello"
    IN  Concat(SubSeq(pending.command, i, Len(pending.command)))

\* C12: update private 42 hello world, typed with any amount of whitespace
\* between the trigger, the verb words, the id and the text, posts to Zendesk
\* a comment whose body is the text alone, "hello world" with its inner
\* whitespace as typed and no whitespace before or after it.
C12_BodyIsTextAlone ==
    (Dispatched /\ out.handler = "update/private" /\ out.calls # <<>>) =>
        out.calls[1].body = TypedText

\* the callback ends before it has a token: r.ParseForm fails, httpClient.Do
\* fails, or the body of the answer cannot be decoded
FailsBeforeToken(x) ==
    \/ x.parseForm = "err"
    \/ x.parseForm = "ok" /\ x.transport = "err"
    \/ /\ x.parseForm = "ok" /\ x.transport = "ok"
       /\ x.StatusCode >= 200 /\ x.StatusCode < 400 /\ x.decode = "err"

\* C13: an OAuth callback that fails before it has a token (form parsing,
\* transport error, undecodable body) leaves the token map exactly as it was,
\* a token already stored for that user included, and answers HTTP 200 with
\* a body that explains the failure.
C13_FailedCallbackKeepsMap ==
    [][(/\ out'.op = "http"
        /\ out'.path = routeOAuthRedirect
        /\ FailsBeforeToken(out'.exchange)) =>
           /\ oauthAccessTokenMap' = oauthAccessTokenMap
           /\ out'.status = StatusOK
           /\ out'.body = "Something went wrong"
      ]_vars

C13_Witness ==
    /\ out.op = "http"
    /\ out.path = routeOAuthRedirect
    /\ out.user = "u1"
    /\ out.exchange.decode = "err"
    /\ out.body = "Something went wrong"
    /\ "u1" \in DOMAIN oauthAccessTokenMap
    /\ oauthAccessTokenMap["u1"] = "tokA"

notConnected == "You are not connected. To connect run /zendesk connect."

\* C14 as stated: the disconnect verb, whatever follows it on the command
\* line, removes the entry of the user; with no entry it changes nothing and
\* reports "not connected".
C14_DisconnectUnconditional ==
    [][(out'.op = "command" /\ out'.handler = "disconnect") =>
           /\ oauthAccessTokenMap' = Remove(oauthAccessTokenMap, out'.user)
           /\ out'.posts = IF out'.user \in DOMAIN oauthAccessTokenMap
                           THEN <<"Disconnected">> ELSE <<notConnected>>
      ]_vars

\* C14 amended: disconnect with nothing after the verb removes the entry of
\* the user and no other and reports "Disconnected"; with no entry it changes
\* nothing and reports "not connected", so a second disconnect leaves the map
\* the first one left; disconnect followed by any further word posts the help
\* text and leaves the map as it was.
C14_DisconnectAlone ==
    [][(out'.op = "command" /\ out'.handler = "disconnect") =>
           IF out'.hargs = <<>>
           THEN /\ oauthAccessTokenMap' = Remove(oauthAccessTokenMap, out'.user)
                /\ out'.posts = IF out'.user \in DOMAIN oauthAccessTokenMap
                                THEN <<"Disconnected">> ELSE <<notConnected>>
                /\ out'.resp = "empty" /\ ~out'.panic
                /\ LET again == ExecuteCommand(oauthAccessTokenMap', out'.user,
                                               Typed(<<"/zendesk", "disconnect">>),
                                               DefaultEnv)
                   IN  /\ again.map = oauthAccessTokenMap'
                       /\ again.posts = <<notConnected>>
                       /\ ~again.panic
           ELSE /\ oauthAccessTokenMap' = oauthAccessTokenMap
                /\ out'.posts = <<helpText>>
      ]_vars

C14_Witness ==
    /\ out.op = "command"
    /\ out.handler = "disconnect"
    /\ out.hargs = <<>>
    /\ out.user = "u1"
    /\ out.posts = <<"Disconnected">>
    /\ DOMAIN oauthAccessTokenMap = {"u2"}

\* C15: ExecuteCommand on a line that is empty (or all whitespace) or whose
\* first word is not the trigger /zendesk posts the help text and returns an
\* empty response and no error; it invokes no verb handler, makes no call to
\* Zendesk and leaves the token map as it was.
C15_NoTriggerGivesHelp ==
    [][(/\ out'.op = "command"
        /\ (out'.words = <<>> \/ out'.words[1] # "/zendesk")) =>
           /\ out'.handler = "none"
           /\ out'.posts = <<helpText>>
           /\ out'.calls = <<>>
           /\ out'.resp = "empty"
           /\ ~out'.panic
           /\ oauthAccessTokenMap' = oauthAccessTokenMap
      ]_vars

C15_Witness ==
    /\ out.op = "command"
    /\ out.words = <<"disconnect">>
    /\ out.user = "u1"
    /\ "u1" \in DOMAIN oauthAccessTokenMap
    /\ out.posts = <<helpText>>
    /\ out.resp = "empty"

\* the workers other than w run nothing, or a callback of the user of w
OnlyCallbacksOfSameUser(w) ==
    \A v \in Procs \ {w} :
        \/ workers[v].pc = "idle"
        \/ workers[v].kind = "callback" /\ workers[v].user = workers[w].user

\* C16: while successful OAuth callbacks of one user run concurrently, the
\* process does not crash and every write that completes takes effect: it
\* puts its own token under the user and leaves the entries of other users
\* as they were, so the entry ends as the token written last, never missing
\* and never another value.
C16_SameUserLastWriteWins ==
    [][/\ (\A w \in Procs :
               \/ workers[w].pc = "idle"
               \/ workers[w].kind = "callback" /\ OnlyCallbacksOfSameUser(w))
            => ~fatal'
       /\ \A w \in Procs :
            (/\ workers[w].kind = "callback"
             /\ workers[w].pc = "writing"
             /\ workers'[w].pc = "done"
             /\ OnlyCallbacksOfSameUser(w)) =>
                /\ workers[w].user \in DOMAIN oauthAccessTokenMap'
                /\ oauthAccessTokenMap'[workers[w].user] = workers[w].token
                /\ \A u \in UserIDs \ {workers[w].user} :
                      /\ u \in DOMAIN oauthAccessTokenMap' <=> u \in DOMAIN oauthAccessTokenMap
                      /\ u \in DOMAIN oauthAccessTokenMap =>
                            oauthAccessTokenMap'[u] = oauthAccessTokenMap[u]
      ]_vars

\* configured URLs from which no host can be derived: no scheme, not parsable
HostlessURLs == {"acme.zendesk.com", "%zz"}

\* C17: deriving the API host from the configured URL never crashes: when a
\* ticket handler of a connected user builds its client from a URL without a
\* scheme, or from one that does not parse, the command ends in an error
\* message, never in a panic and never in a call through a client bound to
\* an empty host; a URL with extra path segments is tolerated.
C17_HostDerivationFailsCleanly ==
    [][(TicketStep /\ out'.user \in DOMAIN oauthAccessTokenMap) =>
           /\ ~out'.panic \/ out'.url \notin (ZendeskURLs \ {"https://acme.zendesk.com"})
           /\ out'.url \in HostlessURLs =>
                 /\ out'.calls = <<>>
                 /\ Len(out'.posts) = 1
           /\ \A i \in 1..Len(out'.calls) :
                 out'.calls[i].cred = "oauth" => out'.calls[i].host # ""
      ]_vars

\* C18: the outcome of an HTTP request follows from its path and method:
\* /user/connect with a method other than GET gives 405 and no redirect, GET
\* /user/connect redirects (302) to the authorization URL of the provider,
\* /test gives 200 with a constant body, a path other than /user/connect,
\* /oauth/redirect and /test gives 404; and none of these requests changes the
\* token map (only /oauth/redirect can).
C18_HttpOutcomeByPathAndMethod ==
    [][out'.op = "http" =>
          /\ (out'.path = routeUserConnect /\ out'.method # "GET") =>
                /\ out'.status = StatusMethodNotAllowed
                /\ ~out'.redirect
          /\ (out'.path = routeUserConnect /\ out'.method = "GET") =>
                /\ out'.status = StatusFound
                /\ out'.redirect
                /\ out'.body = "/oauth/authorizations/new"
          /\ out'.path = routeTest =>
                /\ out'.status = StatusOK
                /\ out'.body = "Hello, world!"
                /\ ~out'.redirect
          /\ out'.path \notin {routeUserConnect, routeOAuthRedirect, routeTest} =>
                /\ out'.status = StatusNotFound
                /\ ~out'.redirect
          /\ out'.path # routeOAuthRedirect =>
                oauthAccessTokenMap' = oauthAccessTokenMap
      ]_vars

C18_Witness ==
    /\ out.op = "http"
    /\ out.path = routeUserConnect
    /\ out.method = "POST"
    /\ out.status = StatusMethodNotAllowed
    /\ ~out.redirect
    /\ DOMAIN oauthAccessTokenMap = {"u1", "u2"}

\* the token endpoint answered 2xx with a body that decodes
Exchanged2xx(x) ==
    /\ x.parseForm = "ok" /\ x.transport = "ok" /\ x.decode = "ok"
    /\ x.StatusCode >= 200 /\ x.StatusCode <= 299

\* C19: over every sequence of commands and HTTP requests the token map
\* changes in two ways only: a successful OAuth callback inserts or overwrites
\* the one key of its user, and a disconnect command of a user with an entry
\* removes that one key; every other step (help, connect, /user/connect,
\* status, details, latest, update, failed callbacks) leaves the whole map as
\* it was, and no entry disappears on its own.
C19_MapChangesOnlyByConnectAndDisconnect ==
    [][oauthAccessTokenMap' # oauthAccessTokenMap =>
          \/ /\ out'.op = "http"
             /\ out'.path = routeOAuthRedirect
             /\ Exchanged2xx(out'.exchange)
             /\ oauthAccessTokenMap' =
                    Put(oauthAccessTokenMap, out'.user, out'.exchange.AccessToken)
          \/ /\ out'.op = "command"
             /\ out'.handler = "disconnect"
             /\ out'.user \in DOMAIN oauthAccessTokenMap
             /\ oauthAccessTokenMap' = Remove(oauthAccessTokenMap, out'.user)
      ]_vars

\* the indexes of the comments the handler received that have the visibility
\* its verb asks for
MatchingComments ==
    {i \in 1..Len(out.comments) : out.comments[i].Public = (out.handler = "latest/public")}

\* C20: latest private and latest public, on a ticket whose comments (oldest
\* first) include one of the visibility asked for, post the body of the
\* matching comment with the highest index, the most recent one; newer
\* comments of the other visibility are skipped.
C20_LatestMatchingComment ==
    (/\ out.op = "command"
     /\ out.handler \in {"latest/private", "latest/public"}
     /\ Len(out.calls) = 1
     /\ ~out.calls[1].err
     /\ MatchingComments # {}) =>
        LET n == CHOOSE i \in MatchingComments : \A j \in MatchingComments : j <= i
        IN  /\ ~out.panic
            /\ out.posts = <<out.comments[n].Body>>
            /\ out.resp = "empty"

C20_Witness ==
    /\ out.op = "command"
    /\ out.handler = "latest/public"
    /\ Len(out.comments) = 3
    /\ out.comments[1].Public /\ out.comments[2].Public /\ ~out.comments[3].Public
    /\ out.posts = <<CommentBody(2)>>

\* the visibility the verb of the last command stands for
VerbVisibility == IF out.handler = "update/private" THEN "private" ELSE "public"

\* the label of the reply of the last command
VerbLabel == IF out.handler = "update/private" THEN "Private" ELSE "Public"

\* C21: every comment update private posts is private (Public = false) and
\* every comment update public posts is public (Public = true); the comment
\* goes to the ticket whose id is the first word after the verb, and when the
\* update succeeds the reply names that ticket; no other command posts a
\* comment, and none posts one with the visibility opposite to its verb.
C21_CommentVisibilityFollowsVerb ==
    out.op = "command" =>
        \A i \in 1..Len(out.calls) :
            out.calls[i].api = "UpdateTicket" =>
                /\ out.handler \in {"update/private", "update/public"}
                /\ out.calls[i].public = VerbVisibility
                /\ Len(out.hargs) >= 1
                /\ out.hargs[1] \in Numerals
                /\ out.calls[i].ticket = ParseInt(out.hargs[1])
                /\ ~out.calls[i].err =>
                      out.posts = <<VerbLabel \o " comment [" \o out.calls[i].body
                                      \o "] was added to ticket #" \o out.hargs[1]>>

C21_Witness ==
    /\ Dispatched
    /\ out.handler = "update/public"
    /\ out.hargs = <<"7", "hello", "world">>
    /\ Len(out.calls) = 1
    /\ out.calls[1].api = "UpdateTicket"
    /\ out.calls[1].public = "public"
    /\ out.calls[1].ticket = 7
    /\ ~out.calls[1].err
    /\ out.resp = "empty"

\* C22: every key of the token map is the non-empty id of the user for whom
\* the exchange was made: a callback that carries no Mattermost-User-ID
\* header never creates an entry.
C22_KeysAreUserIds ==
    /\ DOMAIN oauthAccessTokenMap \subseteq UserIDs
    /\ (out.op = "http" /\ out.path = routeOAuthRedirect /\ out.user = "") =>
           out.body # "Successfully connected mattermost account"

C24_NoCallWithRemovedToken ==
    [][\A v \in Procs :
          (/\ workers[v].kind = "command"
           /\ workers[v].pc = "call"
           /\ workers'[v].pc = "await") =>
              ~\E w \in Procs \ {v} :
                  /\ workers[w].kind = "disconnect"
                  /\ workers[w].user = workers[v].user
                  /\ workers[w].pc = "done"
                  /\ workers[w].ok
                  /\ workers[w].token = workers[v].token
                  /\ workers[v].user \notin DOMAIN oauthAccessTokenMap
      ]_vars

====
